---- MODULE Spec2Model ----
(***************************************************************************)
(* Model of scripts/assemble.py: the Assembly class (find_slots,           *)
(* __init__, add_image), the helper same_keys, and the calls main makes.   *)
(*                                                                         *)
(* A file is a pair (exists, data); data is a sequence of bytes.  A dict   *)
(* is a function whose DOMAIN is its key set.  The exceptions the code     *)
(* raises are plain Exception objects told apart by their message (or the  *)
(* builtin KeyError / OSError); the model names them after the error       *)
(* taxonomy of the design document:                                        *)
(*   "Inconsistent data in devicetree.h"          -> ConsistencyError      *)
(*   "Board partition table does not have ..."    -> MissingPartitionError *)
(*   KeyError from self.offsets[partition]        -> UnknownPartitionError *)
(*   "Partitions not in order, unsupported"       -> OutOfOrderError       *)
(*   "Image ... is too large for partition"       -> OversizedImageError   *)
(*   OSError (unlink, open of the source)         -> IOError               *)
(***************************************************************************)
EXTENDS Integers, Sequences, FiniteSets, TLC

\* ---- bounds of the model ------------------------------------------------
MaxOffset == 3      \* partition addresses range over 0..MaxOffset
MaxSize == 2        \* partition sizes range over 1..MaxSize
MaxRuns == 2        \* the script is run at most MaxRuns times on one output path

\* ---- values -------------------------------------------------------------
MaxCalls == 3       \* main calls add_image at most three times
Pad == 255          \* b'\xFF'
Labels == {"mcuboot", "image-0", "image-1"}

VARIABLES
    pc,            \* "Created" | "Ready" | "Failed" (an exception was raised)
    offsets,       \* find_slots: local dict offsets
    sizes,         \* find_slots: local dict sizes
    self_offsets,  \* self.offsets
    self_sizes,    \* self.sizes
    out_exists,    \* whether a file exists at the output path
    out_data,      \* the bytes of the file at the output path
    call,          \* the last operation: its arguments (is_secondary; the
                   \* partition and, of the source, whether it exists and its
                   \* length), what os.unlink reported, and the error raised
    placed,        \* history: the add_image calls that returned normally
    args,          \* main: the board whose edt.pickle is loaded, and whether
                   \* args.secondary is given
    main_pc,       \* main: the line main is at (0: main is not running)
    files,         \* main: the source files read so far, by path
    runs           \* history: the output left by each earlier run of main

vars == <<pc, offsets, sizes, self_offsets, self_sizes,
          out_exists, out_data, call, placed, args, main_pc, files, runs>>

\* the variables of main
mainvars == <<args, main_pc, files, runs>>

EmptyDict == [k \in {} |-> 0]

\* dict[k] = v
Put(d, k, v) == [x \in (DOMAIN d) \cup {k} |-> IF x = k THEN v ELSE d[x]]

\* mutant: only the first loop, over the keys of a
same_keys_first_loop(a, b) ==
    IF \E ak \in DOMAIN a : ak \notin DOMAIN b THEN FALSE
    ELSE TRUE

\* same_keys(a, b)
same_keys(a, b) ==
    IF \E ak \in DOMAIN a : ak \notin DOMAIN b THEN FALSE
    ELSE IF \E bk \in DOMAIN b : bk \notin DOMAIN a THEN FALSE
    ELSE TRUE

\* ---- errors -------------------------------------------------------------
NoError == [kind |-> "none", what |-> ""]
Error(k, w) == [kind |-> k, what |-> w]

\* ---- the devicetree (edt) ------------------------------------------------
\* A board: the labelled partitions of its flash, each with the address and
\* the size of its first register block (regs[0]).
Regs == [addr : 0..MaxOffset, size : 1..MaxSize]
Boards == UNION {[ks -> Regs] : ks \in SUBSET Labels}

\* the board of the design document's scenario: mcuboot at 0 of size 0x8000,
\* image-0 at 0x8000 of size 0x10000
ScenarioBoard ==
    [l \in {"mcuboot", "image-0"} |->
        IF l = "mcuboot" THEN [addr |-> 0, size |-> 32768]
        ELSE [addr |-> 32768, size |-> 65536]]

ScenarioBoards == Boards \cup {ScenarioBoard}

\* A child of a "fixed-partitions" node: whether it has a "label" property,
\* the label, and regs[0].addr / regs[0].size.
Child(board, l) == [has_label |-> TRUE, label |-> l,
                    addr |-> board[l].addr, size |-> board[l].size]
Unlabelled == [has_label |-> FALSE, label |-> "", addr |-> 0, size |-> 1]

\* the children of the given labels, in the order of ls, that the board has
RECURSIVE ChildrenOf(_, _)
ChildrenOf(board, ls) ==
    IF ls = <<>> THEN <<>>
    ELSE IF Head(ls) \in DOMAIN board
         THEN <<Child(board, Head(ls))>> \o ChildrenOf(board, Tail(ls))
         ELSE ChildrenOf(board, Tail(ls))

\* edt.compat2nodes["fixed-partitions"] for a board: a sequence of nodes, each
\* a sequence of children.  A first node holds the bootloader's partition and
\* a child without label, a second node the image slots.
Edt(board) == <<ChildrenOf(board, <<"mcuboot">>) \o <<Unlabelled>>,
                ChildrenOf(board, <<"image-0", "image-1">>)>>

\* the inner loop of find_slots over node.children.values(), from child i on
RECURSIVE ScanChildren(_, _, _)
ScanChildren(children, i, dicts) ==
    IF i > Len(children) THEN dicts
    ELSE LET child == children[i]
         IN  IF child.has_label
             THEN ScanChildren(children, i + 1,
                      [offsets |-> Put(dicts.offsets, child.label, child.addr),
                       sizes   |-> Put(dicts.sizes, child.label, child.size)])
             ELSE ScanChildren(children, i + 1, dicts)

\* the outer loop of find_slots over part_nodes, from node i on
RECURSIVE ScanNodes(_, _, _)
ScanNodes(part_nodes, i, dicts) ==
    IF i > Len(part_nodes) THEN dicts
    ELSE ScanNodes(part_nodes, i + 1, ScanChildren(part_nodes[i], 1, dicts))

\* the two local dicts of find_slots once both loops are done
ReadSlots(edt) == ScanNodes(edt, 1, [offsets |-> EmptyDict, sizes |-> EmptyDict])

\* mutant: image-1 never required
CheckSlotsNoSecondary(offs, szs, secondary) ==
    IF ~same_keys(offs, szs) THEN Error("ConsistencyError", "")
    ELSE IF "mcuboot" \notin DOMAIN offs THEN Error("MissingPartitionError", "mcuboot")
    ELSE IF "image-0" \notin DOMAIN offs THEN Error("MissingPartitionError", "image-0")
    ELSE NoError

\* mutant: image-1 required whatever is_secondary
CheckSlotsAlwaysSecondary(offs, szs, secondary) ==
    IF ~same_keys(offs, szs) THEN Error("ConsistencyError", "")
    ELSE IF "mcuboot" \notin DOMAIN offs THEN Error("MissingPartitionError", "mcuboot")
    ELSE IF "image-0" \notin DOMAIN offs THEN Error("MissingPartitionError", "image-0")
    ELSE IF "image-1" \notin DOMAIN offs THEN Error("MissingPartitionError", "image-1")
    ELSE NoError

\* mutant: the presence checks made before the consistency check
CheckSlotsPresenceFirst(offs, szs, secondary) ==
    IF "mcuboot" \notin DOMAIN offs THEN Error("MissingPartitionError", "mcuboot")
    ELSE IF "image-0" \notin DOMAIN offs THEN Error("MissingPartitionError", "image-0")
    ELSE IF ("image-1" \notin DOMAIN offs) /\ secondary
         THEN Error("MissingPartitionError", "image-1")
    ELSE IF ~same_keys(offs, szs) THEN Error("ConsistencyError", "")
    ELSE NoError

\* the checks of find_slots on its two dicts: the error raised, or NoError
CheckSlots(offs, szs, secondary) ==
    IF ~same_keys(offs, szs) THEN Error("ConsistencyError", "")
    ELSE IF "mcuboot" \notin DOMAIN offs THEN Error("MissingPartitionError", "mcuboot")
    ELSE IF "image-0" \notin DOMAIN offs THEN Error("MissingPartitionError", "image-0")
    ELSE IF ("image-1" \notin DOMAIN offs) /\ secondary
         THEN Error("MissingPartitionError", "image-1")
    ELSE NoError

\* find_slots from the consistency check on: self.offsets and self.sizes are
\* assigned only when no check raised
find_slots(offs, szs, secondary, old_offsets, old_sizes) ==
    LET e == CheckSlots(offs, szs, secondary)
    IN  [err |-> e,
         self_offsets |-> IF e = NoError THEN offs ELSE old_offsets,
         self_sizes   |-> IF e = NoError THEN szs ELSE old_sizes]

\* ---- the output file ------------------------------------------------------
\* what a file can hold before the Assembly is constructed
OldData == {<<>>, <<1, Pad>>}

\* os.unlink(output): the outcomes the filesystem can produce
UnlinkResults(exists) == IF exists THEN {"ok", "EACCES"} ELSE {"ENOENT", "EACCES"}

\* mutant: every error of unlink propagates, ENOENT too
ReraisedAlways(unlink) == unlink # "ok"

\* except OSError as e: if e.errno != errno.ENOENT: raise
Reraised(unlink) == unlink # "ok" /\ unlink # "ENOENT"

\* mutant: the file at the output path is left in place
RemovedNever(load_err, unlink) == FALSE

\* mutant: os.unlink called before find_slots
RemovedBeforeLoad(load_err, unlink) == unlink = "ok"

\* whether __init__ removes the file at the output path: find_slots has
\* returned and os.unlink succeeds
Removed(load_err, unlink) == load_err = NoError /\ unlink = "ok"

\* mutant: the exception caught, the caller going on
AfterCallCaught(err) == "Ready"

\* the state of the Assembly when a call is over: an exception leaves the
\* call and, nothing catching it, ends the run
AfterCall(err) == IF err = NoError THEN "Ready" ELSE "Failed"

NoCall == [op |-> "none", secondary |-> FALSE, unlink |-> "", partition |-> "",
           src_exists |-> FALSE, src_len |-> 0, err |-> NoError]

\* the Assembly used by a caller other than main
NoArgs == [board |-> EmptyDict, secondary |-> FALSE]
NoMain == args = NoArgs /\ main_pc = 0 /\ files = EmptyDict /\ runs = <<>>

Init ==
    /\ pc = "Created"
    /\ offsets = EmptyDict
    /\ sizes = EmptyDict
    /\ self_offsets = EmptyDict
    /\ self_sizes = EmptyDict
    /\ out_exists \in BOOLEAN
    /\ out_data \in (IF out_exists THEN OldData ELSE {<<>>})
    /\ call = NoCall
    /\ placed = <<>>
    /\ NoMain

\* Assembly.__init__(output, bootdir, is_secondary, edt)
Construct(edt, secondary, unlink) ==
    /\ pc = "Created"
    /\ LET d == ReadSlots(edt)
           r == find_slots(d.offsets, d.sizes, secondary, self_offsets, self_sizes)
           e == IF r.err # NoError THEN r.err
                ELSE IF Reraised(unlink) THEN Error("IOError", "unlink")
                ELSE NoError
       IN  /\ offsets' = d.offsets
           /\ sizes' = d.sizes
           /\ self_offsets' = r.self_offsets
           /\ self_sizes' = r.self_sizes
           /\ IF Removed(r.err, unlink)
              THEN out_exists' = FALSE /\ out_data' = <<>>
              ELSE UNCHANGED <<out_exists, out_data>>
           /\ call' = [NoCall EXCEPT !.op = "init", !.secondary = secondary,
                                      !.unlink = IF r.err = NoError THEN unlink ELSE "",
                                      !.err = e]
           /\ pc' = AfterCall(e)
           /\ UNCHANGED placed

\* ---- add_image ------------------------------------------------------------
\* The files a source path can name.  Image(n) has n bytes that tell their
\* position; the second one is the padding value, the others differ from it.
\* A source is an image of at most MaxSize + 1 bytes, or no file at all.
Image(n) == [i \in 1..n |-> IF i = 2 THEN Pad ELSE 1 + (i % 250)]
NoSource == [exists |-> FALSE, data |-> <<>>]
SourceData == {Image(n) : n \in 0..(MaxSize + 1)}
SourceFiles == [exists : {TRUE}, data : SourceData] \cup {NoSource}

\* the sources of the design document's scenario: its two images (0x100 and
\* 0x9000 bytes) next to the others
ScenarioData == {Image(256), Image(36864)} \cup SourceData
ScenarioFiles == [exists : {TRUE}, data : ScenarioData] \cup {NoSource}

\* the sources at hand in a run on the partition map offs: the scenario's
\* images come with the scenario's board
FilesFor(offs) ==
    IF \E l \in DOMAIN offs : offs[l] > MaxOffset THEN ScenarioFiles ELSE SourceFiles

\* mutant: the output opened with 'wb', which truncates it
OpenTruncate(exists, data) == <<>>

\* open(self.output, 'ab'): the bytes in front of the write position, which
\* is the end of the file; the file is created empty when there is none
OpenAppend(exists, data) == IF exists THEN data ELSE <<>>

\* mutant: the order check left out
NotInOrderNever(pos, offset) == FALSE

\* mutant: the comparison of the order check reversed
NotInOrderReversed(pos, offset) == pos < offset

\* mutant: the order check off by one
NotInOrderOffByOne(pos, offset) == pos > offset + 1

\* pos > self.offsets[partition]
NotInOrder(pos, offset) == pos > offset

\* mutant: padding of the whole offset, not of the gap
GapLenWholeOffset(pos, offset) == offset

\* self.offsets[partition] - pos
GapLen(pos, offset) == offset - pos

\* mutant: padding with zero bytes
PaddingZero(n) == [i \in 1..n |-> 0]

\* b'\xFF' * n
Padding(n) == [i \in 1..n |-> Pad]

\* mutant: the size check off by one
TooLargeOffByOne(ibuf, size) == Len(ibuf) > size + 1

\* mutant: a source as long as the partition rejected
TooLargeAtSize(ibuf, size) == Len(ibuf) >= size

\* len(ibuf) > self.sizes[partition]
TooLarge(ibuf, size) == Len(ibuf) > size

\* mutant: the source read and its size checked before the padding is written
add_image_size_first(data, src, partition) ==
    LET pos == Len(data)
        quiet == [err |-> NoError, data |-> data, wrote |-> FALSE, at |-> 0]
    IN  IF partition \notin DOMAIN self_offsets
        THEN [quiet EXCEPT !.err = Error("UnknownPartitionError", partition)]
        ELSE IF NotInOrder(pos, self_offsets[partition])
        THEN [quiet EXCEPT !.err = Error("OutOfOrderError", partition)]
        ELSE IF ~src.exists
        THEN [quiet EXCEPT !.err = Error("IOError", "source")]
        ELSE IF partition \notin DOMAIN self_sizes
        THEN [quiet EXCEPT !.err = Error("UnknownPartitionError", partition)]
        ELSE IF TooLarge(src.data, self_sizes[partition])
        THEN [quiet EXCEPT !.err = Error("OversizedImageError", partition)]
        ELSE LET padded == IF pos < self_offsets[partition]
                           THEN data \o Padding(GapLen(pos, self_offsets[partition]))
                           ELSE data
             IN  [err |-> NoError, data |-> padded \o src.data,
                  wrote |-> TRUE, at |-> Len(padded)]

\* mutant: the source opened and read before the partition is looked up
add_image_read_first(data, src, partition) ==
    LET pos == Len(data)
        quiet == [err |-> NoError, data |-> data, wrote |-> FALSE, at |-> 0]
    IN  IF ~src.exists
        THEN [quiet EXCEPT !.err = Error("IOError", "source")]
        ELSE IF partition \notin DOMAIN self_offsets
        THEN [quiet EXCEPT !.err = Error("UnknownPartitionError", partition)]
        ELSE IF NotInOrder(pos, self_offsets[partition])
        THEN [quiet EXCEPT !.err = Error("OutOfOrderError", partition)]
        ELSE LET padded == IF pos < self_offsets[partition]
                           THEN data \o Padding(GapLen(pos, self_offsets[partition]))
                           ELSE data
             IN  IF TooLarge(src.data, self_sizes[partition])
                 THEN [quiet EXCEPT !.err = Error("OversizedImageError", partition),
                                    !.data = padded]
                 ELSE [err |-> NoError, data |-> padded \o src.data,
                       wrote |-> TRUE, at |-> Len(padded)]

\* The body of add_image on an output file holding `data`: the error raised,
\* the bytes of the file when the call is over, and whether (and where) the
\* source was appended.  Writes made before an exception reach the file when
\* the with-block closes it.
add_image(data, src, partition) ==
    LET pos == Len(data)                                  \* ofd.tell()
        quiet == [err |-> NoError, data |-> data, wrote |-> FALSE, at |-> 0]
    IN  IF partition \notin DOMAIN self_offsets
        THEN [quiet EXCEPT !.err = Error("UnknownPartitionError", partition)]
        ELSE IF NotInOrder(pos, self_offsets[partition])
        THEN [quiet EXCEPT !.err = Error("OutOfOrderError", partition)]
        ELSE LET padded == IF pos < self_offsets[partition]
                           THEN data \o Padding(GapLen(pos, self_offsets[partition]))
                           ELSE data
             IN  IF ~src.exists
                 THEN [quiet EXCEPT !.err = Error("IOError", "source"),
                                    !.data = padded]
                 ELSE IF partition \notin DOMAIN self_sizes
                 THEN [quiet EXCEPT !.err = Error("UnknownPartitionError", partition),
                                    !.data = padded]
                 ELSE IF TooLarge(src.data, self_sizes[partition])
                 THEN [quiet EXCEPT !.err = Error("OversizedImageError", partition),
                                    !.data = padded]
                 ELSE [err |-> NoError, data |-> padded \o src.data,
                       wrote |-> TRUE, at |-> Len(padded)]

\* Assembly.add_image(source, partition); open(self.output, 'ab') creates the
\* file when there is none and positions at its end.  Nothing catches an
\* exception of add_image: it ends the run.
AddImage(src, partition) ==
    /\ pc = "Ready"
    /\ Len(placed) < MaxCalls
    /\ LET r == add_image(OpenAppend(out_exists, out_data), src, partition)
       IN  /\ out_exists' = TRUE
           /\ out_data' = r.data
           /\ call' = [NoCall EXCEPT !.op = "add_image", !.partition = partition,
                                      !.src_exists = src.exists,
                                      !.src_len = Len(src.data), !.err = r.err]
           /\ placed' = IF r.wrote
                        THEN Append(placed, [partition |-> partition,
                                             source |-> src.data, at |-> r.at])
                        ELSE placed
           /\ pc' = AfterCall(r.err)
    /\ UNCHANGED <<offsets, sizes, self_offsets, self_sizes>>

Next ==
    \/ /\ pc = "Created"
       /\ \E board \in Boards, secondary \in BOOLEAN,
             unlink \in UnlinkResults(out_exists) :
              Construct(Edt(board), secondary, unlink)
       /\ UNCHANGED mainvars
    \/ /\ pc = "Ready"
       /\ \E src \in SourceFiles, partition \in Labels : AddImage(src, partition)
       /\ UNCHANGED mainvars

Spec == Init /\ [][Next]_vars

\* the same run, the board and the sources of the design document's scenario
\* being among the inputs
NextScenario ==
    \/ /\ pc = "Created"
       /\ \E board \in ScenarioBoards, secondary \in BOOLEAN,
             unlink \in UnlinkResults(out_exists) :
              Construct(Edt(board), secondary, unlink)
       /\ UNCHANGED mainvars
    \/ /\ pc = "Ready"
       /\ \E src \in FilesFor(self_offsets), partition \in Labels :
              AddImage(src, partition)
       /\ UNCHANGED mainvars

SpecScenario == Init /\ [][NextScenario]_vars

\* ---- main --------------------------------------------------------------------
\* what main gets from its command line and the build directory: the board
\* whose edt.pickle it loads, and whether -s/--secondary is given
MainArgs == [board : Boards, secondary : BOOLEAN]

\* the paths of the sources
Bootloader == "zephyr/zephyr.bin"
Primary == "args.primary"
Secondary == "args.secondary"

\* main about to construct the Assembly (line 141)
InitMain ==
    /\ pc = "Created"
    /\ offsets = EmptyDict
    /\ sizes = EmptyDict
    /\ self_offsets = EmptyDict
    /\ self_sizes = EmptyDict
    /\ out_exists \in BOOLEAN
    /\ out_data \in (IF out_exists THEN OldData ELSE {<<>>})
    /\ call = NoCall
    /\ placed = <<>>
    /\ args \in MainArgs
    /\ main_pc = 141
    /\ files = EmptyDict
    /\ runs = <<>>

\* is_secondary = args.secondary is not None;
\* output = Assembly(args.output, args.bootdir, is_secondary, edt)
MainConstruct(unlink) ==
    /\ main_pc = 141
    /\ Construct(Edt(args.board), args.secondary, unlink)
    /\ main_pc' = IF pc' = "Ready" THEN 143 ELSE main_pc
    /\ UNCHANGED <<args, files, runs>>

\* the file a path names: the one seen there before or, when the path is
\* named for the first time, any file or none
FileAt(path) == IF path \in DOMAIN files THEN {files[path]} ELSE SourceFiles

\* output.add_image(path, partition) at a line of main; main goes on with
\* the line `next` when the call returns
MainAddImage(line, path, partition, next) ==
    /\ main_pc = line
    /\ \E src \in FileAt(path) :
           /\ AddImage(src, partition)
           /\ files' = Put(files, path, src)
    /\ main_pc' = IF pc' = "Ready" THEN next ELSE main_pc
    /\ UNCHANGED <<args, runs>>

\* line 143
MainMcuboot == MainAddImage(143, Bootloader, "mcuboot", 144)

\* line 144
MainImage0 == MainAddImage(144, Primary, "image-0", 145)

\* mutant: the test of is_secondary left out
MainTestAlways ==
    /\ main_pc = 145
    /\ pc = "Ready"
    /\ main_pc' = 146
    /\ UNCHANGED <<pc, offsets, sizes, self_offsets, self_sizes,
                   out_exists, out_data, call, placed, args, files, runs>>

\* line 145: if is_secondary
MainTest ==
    /\ main_pc = 145
    /\ pc = "Ready"
    /\ main_pc' = IF args.secondary THEN 146 ELSE 147
    /\ UNCHANGED <<pc, offsets, sizes, self_offsets, self_sizes,
                   out_exists, out_data, call, placed, args, files, runs>>

\* line 146
MainImage1 == MainAddImage(146, Secondary, "image-1", 147)

\* main returns and the process exits
MainReturn ==
    /\ main_pc = 147
    /\ pc = "Ready"
    /\ pc' = "Done"
    /\ UNCHANGED <<offsets, sizes, self_offsets, self_sizes,
                   out_exists, out_data, call, placed, args, main_pc, files, runs>>

\* the script run again on the same command line, the build directory and
\* the sources being as before: a new process, the output path holding what
\* the run before left there
Rerun ==
    /\ pc = "Done"
    /\ Len(runs) + 1 < MaxRuns
    /\ runs' = Append(runs, [exists |-> out_exists, data |-> out_data])
    /\ pc' = "Created"
    /\ offsets' = EmptyDict
    /\ sizes' = EmptyDict
    /\ self_offsets' = EmptyDict
    /\ self_sizes' = EmptyDict
    /\ call' = NoCall
    /\ placed' = <<>>
    /\ main_pc' = 141
    /\ UNCHANGED <<out_exists, out_data, args, files>>

NextMain ==
    \/ \E unlink \in UnlinkResults(out_exists) : MainConstruct(unlink)
    \/ MainMcuboot
    \/ MainImage0
    \/ MainTest
    \/ MainImage1
    \/ MainReturn
    \/ Rerun

SpecMain == InitMain /\ [][NextMain]_vars

\* ---- find_slots on arbitrary pairs of dicts ---------------------------------
\* the labels of the dicts: the three slots and one more partition
AllLabels == Labels \cup {"storage"}
OffsetDicts == UNION {[ks -> 0..MaxOffset] : ks \in SUBSET AllLabels}
SizeDicts == UNION {[ks -> 1..MaxSize] : ks \in SUBSET AllLabels}

InitLoad ==
    /\ pc = "Created"
    /\ offsets \in OffsetDicts
    /\ sizes \in SizeDicts
    /\ self_offsets = EmptyDict
    /\ self_sizes = EmptyDict
    /\ out_exists = FALSE
    /\ out_data = <<>>
    /\ call = NoCall
    /\ placed = <<>>
    /\ NoMain

\* find_slots from line 67 on, applied to the two dicts
Load(secondary) ==
    /\ pc = "Created"
    /\ LET r == find_slots(offsets, sizes, secondary, self_offsets, self_sizes)
       IN  /\ self_offsets' = r.self_offsets
           /\ self_sizes' = r.self_sizes
           /\ call' = [NoCall EXCEPT !.op = "find_slots", !.secondary = secondary,
                                      !.err = r.err]
           /\ pc' = IF r.err = NoError THEN "Loaded" ELSE "Failed"
    /\ UNCHANGED <<offsets, sizes, out_exists, out_data, placed>>

NextLoad == (\E secondary \in BOOLEAN : Load(secondary)) /\ UNCHANGED mainvars

SpecLoad == InitLoad /\ [][NextLoad]_vars

\* ---- properties -------------------------------------------------------------
\* the i-th add_image call that returned normally: its partition's offset and
\* size in the partition map, and its source's length
OffsetOf(i) == self_offsets[placed[i].partition]
SizeOf(i) == self_sizes[placed[i].partition]
LenOf(i) == Len(placed[i].source)

\* byte number x of the output (the first byte is number 0)
ByteAt(x) == out_data[x + 1]

IsPrefix(s, t) == Len(s) <= Len(t) /\ \A x \in 1..Len(s) : s[x] = t[x]

\* a step of add_image, seen as a pair of states
AddImageStep == pc = "Ready" /\ call'.op = "add_image"

\* C1: while every add_image call has returned normally, the output holds the
\* i-th source's bytes in [o_i, o_i + l_i) and 0xFF at every position of the
\* gaps [0, o_1) and [o_i + l_i, o_(i+1)), and ends with the last source.
C1_OffsetCorrectness ==
    pc = "Ready" =>
        /\ \A i \in 1..Len(placed) :
               /\ OffsetOf(i) + LenOf(i) <= Len(out_data)
               /\ \A j \in 1..LenOf(i) : ByteAt(OffsetOf(i) + j - 1) = placed[i].source[j]
        /\ placed # <<>> => \A x \in 0..(OffsetOf(1) - 1) : ByteAt(x) = Pad
        /\ \A i \in 1..(Len(placed) - 1) :
               \A x \in (OffsetOf(i) + LenOf(i))..(OffsetOf(i + 1) - 1) : ByteAt(x) = Pad
        /\ placed # <<>> =>
               Len(out_data) = OffsetOf(Len(placed)) + LenOf(Len(placed))

\* three images placed at offsets o1 < o2 < o3, none of them empty, with a gap
\* between two of them
C1_Witness ==
    /\ pc = "Ready"
    /\ Len(placed) = 3
    /\ OffsetOf(1) < OffsetOf(2) /\ OffsetOf(2) < OffsetOf(3)
    /\ \A i \in 1..3 : LenOf(i) > 0
    /\ \E i \in 1..2 : OffsetOf(i) + LenOf(i) < OffsetOf(i + 1)

\* C2: the bytes a call has written for partition P lie exactly in
\* [offset(P), offset(P) + len(source)), inside [offset(P), offset(P) + size(P)).
C2_Containment ==
    \A i \in 1..Len(placed) :
        /\ placed[i].at = OffsetOf(i)
        /\ placed[i].at + LenOf(i) <= Len(out_data)
        /\ SubSeq(out_data, placed[i].at + 1, placed[i].at + LenOf(i)) = placed[i].source
        /\ OffsetOf(i) + LenOf(i) <= OffsetOf(i) + SizeOf(i)

\* an image that fills its partition to the last byte, behind some padding
C2_Witness ==
    /\ placed # <<>>
    /\ \E i \in 1..Len(placed) : LenOf(i) = SizeOf(i) /\ OffsetOf(i) > 0

\* C3: the images placed are pairwise disjoint and in call order: an image
\* placed at P before an image placed at Q ends at or before offset(Q).
C3_NoOverlap ==
    \A i, j \in 1..Len(placed) :
        i < j => /\ OffsetOf(i) + LenOf(i) <= OffsetOf(j)
                 /\ placed[i].at + LenOf(i) <= placed[j].at

\* two images placed in partitions whose declared regions overlap
C3_Witness ==
    \E i, j \in 1..Len(placed) :
        /\ i < j
        /\ placed[i].partition # placed[j].partition
        /\ OffsetOf(i) + SizeOf(i) > OffsetOf(j)
        /\ LenOf(i) > 0 /\ LenOf(j) > 0

\* C4: add_image of a source longer than size(P), called with the cursor at or
\* before offset(P), raises OversizedImageError; it appends only 0xFF padding
\* up to offset(P) and leaves the bytes already in the output unchanged.
C4_OverflowRejection ==
    [][ (/\ AddImageStep
         /\ call'.partition \in DOMAIN self_offsets
         /\ call'.src_exists
         /\ call'.src_len > self_sizes[call'.partition]
         /\ Len(out_data) <= self_offsets[call'.partition])
        => /\ call'.err.kind = "OversizedImageError"
           /\ pc' = "Failed"
           /\ placed' = placed
           /\ Len(out_data') = self_offsets[call'.partition]
           /\ IsPrefix(out_data, out_data')
           /\ \A x \in (Len(out_data) + 1)..Len(out_data') : out_data'[x] = Pad
      ]_vars

\* an oversized source rejected after padding was written behind an image
C4_Witness ==
    /\ pc = "Failed"
    /\ call.err.kind = "OversizedImageError"
    /\ placed # <<>>
    /\ Len(out_data) > OffsetOf(Len(placed)) + LenOf(Len(placed))
    /\ LenOf(Len(placed)) > 0

\* C5: add_image called with the cursor beyond offset(P) raises
\* OutOfOrderError and leaves the output unchanged, whatever the source.
C5_OutOfOrderRejection ==
    [][ (/\ AddImageStep
         /\ call'.partition \in DOMAIN self_offsets
         /\ Len(out_data) > self_offsets[call'.partition])
        => /\ call'.err.kind = "OutOfOrderError"
           /\ pc' = "Failed"
           /\ placed' = placed
           /\ out_data' = out_data
           /\ out_exists' = out_exists
      ]_vars

\* a call out of order whose source would also be too large for the partition
C5_Witness ==
    /\ pc = "Failed"
    /\ call.err.kind = "OutOfOrderError"
    /\ placed # <<>>
    /\ call.src_exists
    /\ call.src_len > self_sizes[call.partition]

\* C6: across an add_image call, raising or not, the output before the call is
\* a prefix of the output after it.
C6_ForwardOnly ==
    [][ AddImageStep => /\ Len(out_data') >= Len(out_data)
                        /\ IsPrefix(out_data, out_data') ]_vars

\* a call that raised after two images and padding had been written
C6_Witness ==
    /\ pc = "Failed"
    /\ call.op = "add_image"
    /\ Len(placed) = 2
    /\ LenOf(1) > 0 /\ LenOf(2) > 0
    /\ Len(out_data) > OffsetOf(2) + LenOf(2)

\* the two placements of the design document's scenario have been made
ScenarioPlaced ==
    /\ pc = "Ready"
    /\ DOMAIN self_offsets = {"mcuboot", "image-0"}
    /\ self_offsets["mcuboot"] = 0 /\ self_sizes["mcuboot"] = 32768
    /\ self_offsets["image-0"] = 32768 /\ self_sizes["image-0"] = 65536
    /\ Len(placed) = 2
    /\ placed[1].partition = "mcuboot" /\ LenOf(1) = 256
    /\ placed[2].partition = "image-0" /\ LenOf(2) = 36864

\* C7: after add_image(source, P) returned normally the output is
\* offset(P) + len(source) bytes long, and at any time it is at least as long
\* as offset + source length of every image placed; on the scenario's board,
\* the 0x100-byte image placed in mcuboot and then the 0x9000-byte image in
\* image-0 give an output of 0x11000 bytes.
C7_ResultingLength ==
    /\ (pc = "Ready" /\ call.op = "add_image") =>
           Len(out_data) = self_offsets[call.partition] + call.src_len
    /\ \A i \in 1..Len(placed) : Len(out_data) >= OffsetOf(i) + LenOf(i)
    /\ ScenarioPlaced => Len(out_data) = 69632

\* the scenario's two images placed: the second one behind a gap, the cursor
\* not at 0 before the call
C7_Witness ==
    /\ ScenarioPlaced
    /\ OffsetOf(1) + LenOf(1) < OffsetOf(2)

\* a mandatory partition is absent from the dict
Lacking(d, secondary) ==
    \/ "mcuboot" \notin DOMAIN d
    \/ "image-0" \notin DOMAIN d
    \/ ("image-1" \notin DOMAIN d /\ secondary)

\* C8: when the key sets of the two dicts differ, find_slots raises
\* ConsistencyError and assigns no partition map.
C8_InconsistentKeysRejected ==
    (pc # "Created" /\ DOMAIN offsets # DOMAIN sizes) =>
        /\ pc = "Failed"
        /\ call.err.kind = "ConsistencyError"
        /\ DOMAIN self_offsets = {} /\ DOMAIN self_sizes = {}

\* rejected for a key of sizes alone, all mandatory partitions being in both
C8_Witness ==
    /\ pc = "Failed"
    /\ call.err.kind = "ConsistencyError"
    /\ DOMAIN offsets = Labels
    /\ DOMAIN sizes = AllLabels

\* C9: when the dicts have the same keys and lack mcuboot, or image-0, or
\* image-1 while is_secondary holds, the construction raises
\* MissingPartitionError; so the partition map of an Assembly that add_image
\* runs against has mcuboot and image-0, and image-1 when is_secondary held,
\* and add_image never changes it.
C9_MissingPartitionRejected ==
    /\ [][ pc = "Created" =>
             /\ (DOMAIN offsets' = DOMAIN sizes' /\ Lacking(offsets', call'.secondary)) =>
                    /\ pc' = "Failed"
                    /\ call'.err.kind = "MissingPartitionError"
                    /\ DOMAIN self_offsets' = {} /\ DOMAIN self_sizes' = {}
             /\ pc' = "Ready" =>
                    /\ ~Lacking(self_offsets', call'.secondary)
                    /\ ~Lacking(self_sizes', call'.secondary) ]_vars
    /\ [][ pc = "Ready" => /\ DOMAIN self_offsets' = DOMAIN self_offsets
                           /\ DOMAIN self_sizes' = DOMAIN self_sizes ]_vars
    /\ [](pc = "Ready" => ~Lacking(self_offsets, FALSE) /\ ~Lacking(self_sizes, FALSE))

\* rejected for image-1 alone: dual-image mode, mcuboot and image-0 present
C9_Witness ==
    /\ pc = "Failed"
    /\ call.op = "init"
    /\ call.err = Error("MissingPartitionError", "image-1")
    /\ call.secondary
    /\ DOMAIN offsets = {"mcuboot", "image-0"}

\* C10: when the dicts have the same keys and hold mcuboot and image-0 (and
\* image-1 when is_secondary holds), find_slots raises nothing and the
\* partition map equals the dicts entry for entry; the dicts are not changed.
C10_ValidMapAccepted ==
    /\ []((pc # "Created" /\ DOMAIN offsets = DOMAIN sizes
                          /\ ~Lacking(offsets, call.secondary)) =>
              /\ pc = "Loaded"
              /\ call.err = NoError
              /\ DOMAIN self_offsets = DOMAIN offsets
              /\ \A k \in DOMAIN offsets : self_offsets[k] = offsets[k]
              /\ DOMAIN self_sizes = DOMAIN sizes
              /\ \A k \in DOMAIN sizes : self_sizes[k] = sizes[k])
    /\ [][offsets' = offsets /\ sizes' = sizes]_vars

\* accepted in single-image mode without image-1 and with one more partition
C10_Witness ==
    /\ pc = "Loaded"
    /\ ~call.secondary
    /\ DOMAIN self_offsets = {"mcuboot", "image-0", "storage"}

\* a step of __init__, seen as a pair of states
ConstructStep == pc = "Created" /\ call'.op = "init"

\* C13: add_image for a partition that the partition map does not hold raises
\* UnknownPartitionError, wherever the cursor is and whether or not the source
\* can be read, and writes no byte to the output.
C13_UnknownPartitionRejected ==
    [][ (AddImageStep /\ call'.partition \notin DOMAIN self_offsets)
        => /\ call'.err = Error("UnknownPartitionError", call'.partition)
           /\ pc' = "Failed"
           /\ placed' = placed
           /\ out_data' = out_data
      ]_vars

\* an unknown partition rejected behind an image, the source being unreadable
C13_Witness ==
    /\ pc = "Failed"
    /\ call.op = "add_image"
    /\ call.err.kind = "UnknownPartitionError"
    /\ ~call.src_exists
    /\ placed # <<>>
    /\ out_data # <<>>

\* C15: add_image of a readable source no longer than size(P), called with the
\* cursor at or before offset(P), returns normally (a source of exactly
\* size(P) bytes included) and the output then ends with the whole source, at
\* offset(P); this holds for a source of length 0 too.
C15_SizeBoundary ==
    [][ (/\ AddImageStep
         /\ call'.partition \in DOMAIN self_offsets
         /\ Len(out_data) <= self_offsets[call'.partition]
         /\ call'.src_exists
         /\ call'.src_len <= self_sizes[call'.partition])
        => /\ call'.err = NoError
           /\ pc' = "Ready"
           /\ Len(placed') = Len(placed) + 1
           /\ LET p == placed'[Len(placed')]
                  o == self_offsets[call'.partition]
              IN  /\ p.partition = call'.partition
                  /\ Len(p.source) = call'.src_len
                  /\ Len(out_data') = o + Len(p.source)
                  /\ \A j \in 1..Len(p.source) : out_data'[o + j] = p.source[j]
      ]_vars

\* an image of exactly its partition's size (more than one byte) placed, and
\* an empty image placed
C15_Witness ==
    /\ pc = "Ready"
    /\ \E i \in 1..Len(placed) : LenOf(i) = SizeOf(i) /\ SizeOf(i) > 1
    /\ \E i \in 1..Len(placed) : LenOf(i) = 0

\* C16: when os.unlink finds no file at the output path (ENOENT) the
\* construction goes on and, the partition map being valid, succeeds; when
\* os.unlink fails for another reason the construction raises IOError, the
\* Assembly is not Ready and the file is left as it was.  An Assembly whose
\* construction raised IOError never runs add_image.
C16_CleanupErrorPolicy ==
    /\ [][ ConstructStep =>
             /\ (~out_exists /\ call'.unlink = "ENOENT") =>
                    /\ pc' = "Ready"
                    /\ call'.err = NoError
                    /\ ~out_exists'
             /\ (call'.unlink \notin {"", "ok", "ENOENT"}) =>
                    /\ pc' = "Failed"
                    /\ call'.err = Error("IOError", "unlink")
                    /\ out_exists' = out_exists
                    /\ out_data' = out_data ]_vars
    /\ [](call.err.kind = "IOError" /\ call.op = "init" => pc = "Failed" /\ placed = <<>>)
    /\ [][ pc = "Failed" => call'.op # "add_image" ]_vars

\* constructed with no file at the output path
C16_Witness ==
    /\ pc = "Ready"
    /\ call.op = "init"
    /\ call.unlink = "ENOENT"
    /\ ~out_exists

\* C19: when find_slots raises (ConsistencyError or MissingPartitionError),
\* os.unlink is not called: the file at the output path, if any, is neither
\* removed nor changed.
C19_LoadBeforeUnlink ==
    [][ (ConstructStep /\ call'.err.kind \in {"ConsistencyError", "MissingPartitionError"})
        => /\ pc' = "Failed"
           /\ call'.unlink = ""
           /\ out_exists' = out_exists
           /\ out_data' = out_data
      ]_vars

\* a file with content at the output path survives a failed find_slots
C19_Witness ==
    /\ pc = "Failed"
    /\ call.op = "init"
    /\ call.err.kind = "MissingPartitionError"
    /\ out_exists
    /\ out_data # <<>>

\* the first mandatory partition, in the order mcuboot, image-0, image-1, that
\* the dict lacks
FirstLacking(d) ==
    IF "mcuboot" \notin DOMAIN d THEN "mcuboot"
    ELSE IF "image-0" \notin DOMAIN d THEN "image-0"
    ELSE "image-1"

\* C14: find_slots compares the key sets before it looks for the mandatory
\* partitions: dicts whose key sets differ and that lack a mandatory partition
\* give ConsistencyError, never MissingPartitionError; with equal key sets the
\* MissingPartitionError names the first partition lacking in the order
\* mcuboot, image-0, image-1.
C14_ConsistencyCheckedFirst ==
    /\ (/\ pc # "Created"
        /\ DOMAIN offsets # DOMAIN sizes
        /\ (Lacking(offsets, call.secondary) \/ Lacking(sizes, call.secondary)))
       => /\ pc = "Failed"
          /\ call.err.kind = "ConsistencyError"
    /\ (/\ pc # "Created"
        /\ DOMAIN offsets = DOMAIN sizes
        /\ Lacking(offsets, call.secondary))
       => /\ pc = "Failed"
          /\ call.err = Error("MissingPartitionError", FirstLacking(offsets))

\* ConsistencyError for dicts of which offsets lacks mcuboot and image-0
C14_Witness ==
    /\ pc = "Failed"
    /\ call.err.kind = "ConsistencyError"
    /\ "mcuboot" \notin DOMAIN offsets
    /\ "image-0" \notin DOMAIN offsets
    /\ DOMAIN sizes = Labels

\* a step of add_image made by main, seen as a pair of states
MainAddImageStep == AddImageStep /\ main_pc \in {143, 144, 146}

\* the partitions of the add_image calls that returned normally, in call order
PlacedPartitions == [i \in 1..Len(placed) |-> placed[i].partition]

\* every image placed is in the output, at the place it was written to
PlacedRemain ==
    \A i \in 1..Len(placed) :
        /\ placed[i].at + LenOf(i) <= Len(out_data)
        /\ \A j \in 1..LenOf(i) : out_data[placed[i].at + j] = placed[i].source[j]

\* C11: whatever the output path holds before, no file is there once the
\* Assembly is constructed, so the first add_image of a run starts at
\* position 0; and a run of main that completes on the output path, the
\* command line and the sources of an earlier complete run leaves the same
\* bytes as that run did.
C11_IdempotentInit ==
    /\ (pc = "Ready" /\ call.op = "init") => (~out_exists /\ out_data = <<>>)
    /\ (pc = "Ready" /\ main_pc = 143) => Len(OpenAppend(out_exists, out_data)) = 0
    /\ (pc = "Done" /\ runs # <<>>) =>
           \A r \in 1..Len(runs) : runs[r] = [exists |-> out_exists, data |-> out_data]

\* a second complete run of three images, with padding, over the output of
\* the first
C11_Witness ==
    /\ pc = "Done"
    /\ Len(runs) = 1
    /\ runs[1].exists /\ runs[1].data # <<>>
    /\ Len(placed) = 3
    /\ \A i \in 1..3 : LenOf(i) > 0
    /\ \E i \in 1..2 : OffsetOf(i) + LenOf(i) < OffsetOf(i + 1)

\* C12: a run in which the construction or an add_image call raised is
\* Failed, and nothing happens in it any more: no add_image, no retry, no
\* change of the output.  The step that raises removes nothing: the output
\* before it is a prefix of the output after it (the construction leaves it
\* as it is), and the images placed before are still in it.
C12_ErrorsFatal ==
    /\ [](call.err # NoError => pc = "Failed")
    /\ [][pc # "Failed"]_vars
    /\ [][ (pc # "Failed" /\ pc' = "Failed") =>
             /\ IsPrefix(out_data, out_data')
             /\ out_exists => out_exists'
             /\ call'.op = "init" => (out_exists' = out_exists /\ out_data' = out_data)
             /\ placed' = placed
             /\ main_pc' = main_pc ]_vars
    /\ [](pc = "Failed" => PlacedRemain)

\* the third call of a dual-image run raised, behind two images
C12_Witness ==
    /\ pc = "Failed"
    /\ main_pc = 146
    /\ call.op = "add_image"
    /\ Len(placed) = 2
    /\ LenOf(1) > 0 /\ LenOf(2) > 0

\* C17: in a run of main the Assembly is constructed once, before any
\* add_image; the add_image calls are made for mcuboot, then image-0, then
\* image-1, the last one only when -s is given; a run that completes has
\* placed mcuboot and image-0, and image-1 as well exactly when -s is given;
\* no step leads from Ready to Created.
C17_PlacementSequence ==
    /\ [][ ConstructStep => (main_pc = 141 /\ placed = <<>>) ]_vars
    /\ [][ pc' = "Created" => pc \in {"Created", "Done"} ]_vars
    /\ [][ MainAddImageStep =>
             /\ Len(placed) <= 2
             /\ Len(placed) = 0 => call'.partition = "mcuboot"
             /\ Len(placed) = 1 => call'.partition = "image-0"
             /\ Len(placed) = 2 => (call'.partition = "image-1" /\ args.secondary) ]_vars
    /\ [](pc = "Done" =>
             PlacedPartitions = IF args.secondary
                                THEN <<"mcuboot", "image-0", "image-1">>
                                ELSE <<"mcuboot", "image-0">>)

\* a complete single-image run on a board that has an image-1 partition
C17_Witness ==
    /\ pc = "Done"
    /\ ~args.secondary
    /\ "image-1" \in DOMAIN self_offsets
    /\ Len(placed) = 2

\* C18 as stated: a complete run has offset(mcuboot) <= offset(image-0) <=
\* offset(image-1) in its partition map (stated for the maps that hold
\* image-1).
C18_Original ==
    (pc = "Done" /\ "image-1" \in DOMAIN self_offsets) =>
        /\ self_offsets["mcuboot"] <= self_offsets["image-0"]
        /\ self_offsets["image-0"] <= self_offsets["image-1"]

\* C18: an add_image for a partition whose offset is below the offset of a
\* partition placed before raises OutOfOrderError, whatever the lengths of
\* the images, and writes nothing; a run of main that completes has
\* offset(mcuboot) <= offset(image-0) and, when -s is given,
\* offset(image-0) <= offset(image-1).
C18_OrderEnforced ==
    /\ [][ (/\ MainAddImageStep
            /\ call'.partition \in DOMAIN self_offsets
            /\ \E i \in 1..Len(placed) : self_offsets[call'.partition] < OffsetOf(i))
           => /\ call'.err.kind = "OutOfOrderError"
              /\ pc' = "Failed"
              /\ placed' = placed
              /\ out_data' = out_data ]_vars
    /\ [](pc = "Done" =>
             /\ self_offsets["mcuboot"] <= self_offsets["image-0"]
             /\ args.secondary => self_offsets["image-0"] <= self_offsets["image-1"])

\* out of order behind an empty image: image-0 below mcuboot, both sources
\* empty
C18_Witness ==
    /\ pc = "Failed"
    /\ call.err.kind = "OutOfOrderError"
    /\ call.partition = "image-0"
    /\ call.src_exists /\ call.src_len = 0
    /\ Len(placed) = 1
    /\ LenOf(1) = 0

====
